---- MODULE Spec2Model ----
(***************************************************************************)
(* Model of the Safar Travel assistant (Prompt Engineering/project-root):  *)
(* the ticket store of src/tools.py (TicketAPISimulator, Tools), the       *)
(* tool-calling chat of src/manager.py (ChatManager) and the intent        *)
(* handlers of src/orchestrator.py (Orchestrator).                         *)
(*                                                                         *)
(* Python values are represented as follows.                               *)
(*   str             a TLA+ string; None where a str is expected is the    *)
(*                   value None below (it is in no city list, is no key    *)
(*                   of the ticket dict)                                   *)
(*   date string     [kind |-> "str", chars |-> <<"2","0",...>>], so that  *)
(*                   strptime can be modelled as the parser it is          *)
(*   passenger       [kind |-> "dict", d |-> [key |-> value]] and the      *)
(*                   non-dict values an LLM tool call can carry            *)
(*   dict of tickets a sequence of ticket records, in insertion order      *)
(*   tickets file    a sequence of lines, each a JSON object               *)
(***************************************************************************)
EXTENDS Integers, Sequences, FiniteSets, TLC

\* ------------------------------------------------------------------ bounds
\* uuid4 draws (successful bookings) explored per behaviour
MaxTickets == 2

\* run() calls explored per process
MaxTurns == 1

\* seconds of clock advance explored
MaxElapsed == 301

\* tools.run("web_search", ..) calls explored per process
MaxSearches == 2

\* turns kept per user in session_memory
MaxHistory == 2

\* ------------------------------------------------------------ Python data
None == "None"

NoneValue == [kind |-> "none"]

Str(chars) == [kind |-> "str", chars |-> chars]

\* the two Tools objects of the process: ChatManager.tools and Orchestrator.tools
Instances == {"chat_manager", "orchestrator"}

valid_cities ==
  {"Tehran", "Mashhad", "Isfahan", "Shiraz", "Tabriz",
   "Kerman", "Rasht", "Ahvaz", "Yazd", "Kish"}

required == <<"full_name", "national_id", "phone">>

base_price == 500000

distance_unit == 20000

\* str(uuid.uuid4()): the n-th identifier drawn in the process history
UUIDNames == <<"uuid-1", "uuid-2", "uuid-3", "uuid-4", "uuid-5", "uuid-6">>

\* faulty variant of uuid4: the generator repeats its first identifier
uuid4_mutant(n) == UUIDNames[1]

uuid4(n) == UUIDNames[n]

Abs(n) == IF n < 0 THEN -n ELSE n

\* ------------------------------------------------- datetime.strptime(%Y-%m-%d)
DigitChars == <<"0", "1", "2", "3", "4", "5", "6", "7", "8", "9">>

IsDigit(c) == \E i \in 1..10 : DigitChars[i] = c

DigitVal(c) == (CHOOSE i \in 1..10 : DigitChars[i] = c) - 1

RECURSIVE NumVal(_)
NumVal(s) ==
  IF s = <<>> THEN 0
  ELSE 10 * NumVal(SubSeq(s, 1, Len(s) - 1)) + DigitVal(s[Len(s)])

\* the regular expression _strptime builds for %m: 1[0-2]|0[1-9]|[1-9]
MatchMonth(s) ==
  \/ Len(s) = 2 /\ s[1] = "1" /\ s[2] \in {"0", "1", "2"}
  \/ Len(s) = 2 /\ s[1] = "0" /\ IsDigit(s[2]) /\ s[2] # "0"
  \/ Len(s) = 1 /\ IsDigit(s[1]) /\ s[1] # "0"

\* the regular expression for %d: 3[0-1]|[1-2]\d|0[1-9]|[1-9]| [1-9]
MatchDay(s) ==
  \/ Len(s) = 2 /\ s[1] = "3" /\ s[2] \in {"0", "1"}
  \/ Len(s) = 2 /\ s[1] \in {"1", "2"} /\ IsDigit(s[2])
  \/ Len(s) = 2 /\ s[1] \in {"0", " "} /\ IsDigit(s[2]) /\ s[2] # "0"
  \/ Len(s) = 1 /\ IsDigit(s[1]) /\ s[1] # "0"

DayVal(s) == IF s[1] = " " THEN NumVal(Tail(s)) ELSE NumVal(s)

IsLeap(y) == (y % 4 = 0) /\ ((y % 100 # 0) \/ (y % 400 = 0))

DaysInMonth(y, m) ==
  IF m = 2 THEN (IF IsLeap(y) THEN 29 ELSE 28)
  ELSE IF m \in {4, 6, 9, 11} THEN 30 ELSE 31

\* the position of the second "-" of s, 0 when there is none
SecondDash(s) ==
  IF \E j \in 7..Len(s) : s[j] = "-"
  THEN CHOOSE j \in 7..Len(s) : s[j] = "-" /\ \A k \in 7..(j - 1) : s[k] # "-"
  ELSE 0

\* TRUE iff datetime.strptime(date_str, "%Y-%m-%d") returns (raises nothing):
\* a non-str raises TypeError, a str must match \d\d\d\d-%m-%d entirely and
\* name a day that exists (year >= 1)
strptime(date_str) ==
  /\ date_str.kind = "str"
  /\ LET s == date_str.chars
         j == SecondDash(s)
     IN /\ Len(s) >= 8
        /\ \A i \in 1..4 : IsDigit(s[i])
        /\ s[5] = "-"
        /\ j # 0
        /\ j < Len(s)
        /\ MatchMonth(SubSeq(s, 6, j - 1))
        /\ MatchDay(SubSeq(s, j + 1, Len(s)))
        /\ NumVal(SubSeq(s, 1, 4)) >= 1
        /\ DayVal(SubSeq(s, j + 1, Len(s)))
             <= DaysInMonth(NumVal(SubSeq(s, 1, 4)), NumVal(SubSeq(s, 6, j - 1)))

\* ------------------------------------------------------- passenger checks
\* "not passenger": None, an empty dict, the number 0
Falsy(passenger) ==
  \/ passenger.kind = "none"
  \/ passenger.kind = "dict" /\ DOMAIN passenger.d = {}
  \/ passenger.kind = "int" /\ passenger.n = 0

\* "k not in passenger" raises TypeError on a value that is no container
MembershipRaises(passenger) == passenger.kind = "int"

\* any(k not in passenger for k in required), on a dict
MissingRequired(passenger) ==
  \E i \in 1..Len(required) : required[i] \notin DOMAIN passenger.d

\* --------------------------------------------------------------- json
JString(s) == [j |-> "string", s |-> s]

JNumber(n) == [j |-> "number", n |-> n]

JNull == [j |-> "null"]

JObject(members) == [j |-> "object", members |-> members]

\* key order of the passenger object in the serialised line
PassengerKeys == <<"full_name", "national_id", "phone", "preferences">>

RECURSIVE DumpDict(_, _)
DumpDict(d, keys) ==
  IF keys = <<>> THEN <<>>
  ELSE IF Head(keys) \in DOMAIN d
       THEN <<(<<Head(keys), JString(d[Head(keys)])>>)>> \o DumpDict(d, Tail(keys))
       ELSE DumpDict(d, Tail(keys))

DumpStr(s) == IF s = None THEN JNull ELSE JString(s)

\* faulty variant of json_dumps: the travel date is written zero-padded
\* (as date.isoformat() would), not as the string that was passed
json_dumps_mutant(ticket) ==
  JObject(<<
    <<"ticket_id", DumpStr(ticket.ticket_id)>>,
    <<"origin", DumpStr(ticket.origin)>>,
    <<"destination", DumpStr(ticket.destination)>>,
    <<"travel_date",
      JString(IF Len(ticket.travel_date.chars) = 10 THEN ticket.travel_date.chars
              ELSE <<"2", "0", "2", "5", "-", "0", "1", "-", "0", "5">>)>>,
    <<"passenger", JObject(DumpDict(ticket.passenger.d, PassengerKeys))>>,
    <<"price", JNumber(ticket.price)>>,
    <<"status", DumpStr(ticket.status)>> >>)

\* json.dumps(ticket, ensure_ascii=False): the members in the dict's key order
json_dumps(ticket) ==
  JObject(<<
    <<"ticket_id", DumpStr(ticket.ticket_id)>>,
    <<"origin", DumpStr(ticket.origin)>>,
    <<"destination", DumpStr(ticket.destination)>>,
    <<"travel_date", JString(ticket.travel_date.chars)>>,
    <<"passenger", JObject(DumpDict(ticket.passenger.d, PassengerKeys))>>,
    <<"price", JNumber(ticket.price)>>,
    <<"status", DumpStr(ticket.status)>> >>)

Member(obj, key) ==
  LET i == CHOOSE k \in 1..Len(obj.members) : obj.members[k][1] = key
  IN obj.members[i][2]

LoadStr(v) == IF v.j = "null" THEN None ELSE v.s

LoadDict(obj) ==
  [k \in {obj.members[i][1] : i \in 1..Len(obj.members)} |-> Member(obj, k).s]

\* json.loads(line) of a line written by json_dumps
json_loads(line) ==
  [ticket_id   |-> LoadStr(Member(line, "ticket_id")),
   origin      |-> LoadStr(Member(line, "origin")),
   destination |-> LoadStr(Member(line, "destination")),
   travel_date |-> Str(Member(line, "travel_date").s),
   passenger   |-> [kind |-> "dict", d |-> LoadDict(Member(line, "passenger"))],
   price       |-> Member(line, "price").n,
   status      |-> LoadStr(Member(line, "status"))]

\* ------------------------------------------------ dict of tickets (ordered)
HasKey(dict, key) == \E i \in 1..Len(dict) : dict[i].ticket_id = key

\* self.tickets.get(ticket_id); only used under HasKey
DictGet(dict, key) == dict[CHOOSE i \in 1..Len(dict) : dict[i].ticket_id = key]

\* self.tickets[key] = ticket: an existing key keeps its position
DictSet(dict, key, ticket) ==
  IF HasKey(dict, key)
  THEN [i \in 1..Len(dict) |-> IF dict[i].ticket_id = key THEN ticket ELSE dict[i]]
  ELSE Append(dict, ticket)

Keys(dict) == {dict[i].ticket_id : i \in 1..Len(dict)}

\* ----------------------------------------------------- TicketAPISimulator
RECURSIVE LoadLines(_, _)
LoadLines(lines, dict) ==
  IF lines = <<>> THEN dict
  ELSE LET ticket == json_loads(Head(lines))
       IN LoadLines(Tail(lines), DictSet(dict, ticket.ticket_id, ticket))

\* TicketAPISimulator.__init__ + _load_from_file: self.tickets of a fresh object
_load_from_file(lines) == LoadLines(lines, <<>>)

\* _rewrite_file: the file content written from self.tickets.values()
_rewrite_file(dict) == [i \in 1..Len(dict) |-> json_dumps(dict[i])]

\* _append_to_file: one more line
_append_to_file(lines, ticket) == Append(lines, json_dumps(ticket))

final_price(origin, destination) ==
  base_price + Abs(Len(origin) - Len(destination)) * distance_unit

ErrorResult(msg, code) == [error |-> msg, status |-> code]

\* book_ticket(data) on an object whose self.tickets is dict, the file holding
\* lines, uuid4 returning ticket_id: the new self.tickets, the new file and
\* the returned mapping
book_ticket(dict, lines, data, ticket_id) ==
  LET unchanged(r) == [tickets |-> dict, file |-> lines, result |-> r, booked |-> FALSE]
  IN
  IF data.origin \notin valid_cities \/ data.destination \notin valid_cities
  THEN unchanged(ErrorResult("Invalid city name", 400))
  ELSE IF ~strptime(data.date)
  THEN unchanged(ErrorResult("Invalid date format (YYYY-MM-DD)", 400))
  ELSE IF ~Falsy(data.passenger) /\ MembershipRaises(data.passenger)
  THEN unchanged(ErrorResult("TypeError", 500))
  ELSE IF Falsy(data.passenger) \/ MissingRequired(data.passenger)
  THEN unchanged(ErrorResult("Missing passenger information", 400))
  ELSE
    LET ticket_info ==
          [ticket_id   |-> ticket_id,
           origin      |-> data.origin,
           destination |-> data.destination,
           travel_date |-> data.date,
           passenger   |-> data.passenger,
           price       |-> final_price(data.origin, data.destination),
           status      |-> "confirmed"]
    IN [tickets |-> DictSet(dict, ticket_id, ticket_info),
        file    |-> _append_to_file(lines, ticket_info),
        result  |-> [status |-> 200, message |-> "Ticket booked successfully",
                     data |-> ticket_info],
        booked  |-> TRUE]

\* int(ticket["price"] * 0.7).  For the prices final_price produces
\* (500000 + 20000 * k) the double product is the exact integer 7 * price / 10.
refund_amount(price) == (price * 7) \div 10

\* faulty variant of cancel_ticket: the not-found branch also rewrites the
\* file from self.tickets
cancel_ticket_mutant(dict, lines, ticket_id) ==
  IF ~HasKey(dict, ticket_id)
  THEN [tickets |-> dict, file |-> _rewrite_file(dict),
        result |-> ErrorResult("Ticket not found", 404)]
  ELSE
    LET ticket == DictGet(dict, ticket_id)
        after  == DictSet(dict, ticket_id, [ticket EXCEPT !.status = "cancelled"])
    IN [tickets |-> after,
        file    |-> _rewrite_file(after),
        result  |-> [status |-> 200, message |-> "Ticket cancelled",
                     refund_amount |-> refund_amount(ticket.price),
                     ticket_id |-> ticket_id]]

\* cancel_ticket(ticket_id)
cancel_ticket(dict, lines, ticket_id) ==
  IF ~HasKey(dict, ticket_id)
  THEN [tickets |-> dict, file |-> lines,
        result |-> ErrorResult("Ticket not found", 404)]
  ELSE
    LET ticket == DictGet(dict, ticket_id)
        after  == DictSet(dict, ticket_id, [ticket EXCEPT !.status = "cancelled"])
    IN [tickets |-> after,
        file    |-> _rewrite_file(after),
        result  |-> [status |-> 200, message |-> "Ticket cancelled",
                     refund_amount |-> refund_amount(ticket.price),
                     ticket_id |-> ticket_id]]

\* get_ticket_info(ticket_id)
get_ticket_info(dict, ticket_id) ==
  IF ~HasKey(dict, ticket_id)
  THEN ErrorResult("Ticket not found", 404)
  ELSE [status |-> 200, data |-> DictGet(dict, ticket_id)]

\* ------------------------------------------------------------ input sets
\* the strings a caller (an LLM tool call) passes as date
DateISO == Str(<<"2", "0", "2", "5", "-", "1", "2", "-", "1", "3">>)

DateUnpadded == Str(<<"2", "0", "2", "5", "-", "1", "-", "5">>)

DateNoSuchDay == Str(<<"2", "0", "2", "5", "-", "0", "2", "-", "3", "0">>)

DateInputs == {DateISO, DateUnpadded, DateNoSuchDay}

PassengerFull ==
  [kind |-> "dict",
   d |-> [full_name |-> "Ali Rezaei", national_id |-> "0012345678",
          phone |-> "09121234567"]]

PassengerNoPhone ==
  [kind |-> "dict", d |-> [full_name |-> "Ali Rezaei", national_id |-> "0012345678"]]

PassengerInputs == {PassengerFull, PassengerNoPhone, [kind |-> "int", n |-> 5]}

OriginInputs == {"Tehran", "Paris"}

DestinationInputs == {"Kish", None}

\* number of fields of data that book_ticket objects to
Faults(data) ==
  (IF data.origin \in valid_cities THEN 0 ELSE 1)
    + (IF data.destination \in valid_cities THEN 0 ELSE 1)
    + (IF strptime(data.date) THEN 0 ELSE 1)
    + (IF data.passenger = PassengerFull THEN 0 ELSE 1)

\* the booking requests: every combination with at most one faulty field
BookInputs ==
  {data \in [origin : OriginInputs, destination : DestinationInputs,
              date : DateInputs, passenger : PassengerInputs] : Faults(data) <= 1}

\* ticket ids a caller passes: every uuid the process can draw and an id that
\* is never issued
TicketIdInputs == {uuid4(n) : n \in 1..MaxTickets} \cup {"98421375"}

\* ------------------------------------------------------------- Tools.run
\* params that is no dict: the JSON null of a tool call ("params": null)
NullParams == [kind |-> "null"]

\* the call raised exc instead of returning a mapping
Raised(exc) == [raised |-> exc]

IsRaised(result) == "raised" \in DOMAIN result

\* Tools.run(tool_name, params) on a Tools object whose ticket dict is dict:
\* the new dict, the new file, whether a uuid was drawn, the returned mapping.
\* params.get(..) on a params that is no dict raises AttributeError: inside
\* book_ticket it is caught by its try/except (status 500), in Tools.run
\* itself (lines 142 and 145) nothing catches it
ToolsRun(dict, lines, tool_name, params, ticket_id) ==
  IF tool_name = "api_book_ticket" /\ params = NullParams
  THEN [tickets |-> dict, file |-> lines, booked |-> FALSE,
        result |-> ErrorResult("AttributeError", 500)]
  ELSE IF tool_name \in {"api_cancel_ticket", "api_get_ticket_info"}
          /\ params = NullParams
  THEN [tickets |-> dict, file |-> lines, booked |-> FALSE,
        result |-> Raised("AttributeError")]
  ELSE IF tool_name = "api_book_ticket"
  THEN book_ticket(dict, lines, params, ticket_id)
  ELSE IF tool_name = "api_cancel_ticket"
  THEN [booked |-> FALSE] @@ cancel_ticket(dict, lines, params.ticket_id)
  ELSE IF tool_name = "api_get_ticket_info"
  THEN [tickets |-> dict, file |-> lines, booked |-> FALSE,
        result |-> get_ticket_info(dict, params.ticket_id)]
  ELSE [tickets |-> dict, file |-> lines, booked |-> FALSE,
        result |-> ErrorResult("Unknown tool", 400)]

\* ------------------------------------------------------------ web_search
\* seconds; time.time() of the first instant explored (any value above ttl)
Epoch == 1000

DEFAULT_TTL == 300

MIN_INTERVAL_PER_QUERY == 1

\* _make_cache_key: f"web:{query}|loc:{location or ''}|k:{max_results}"
_make_cache_key(query, location, max_results) ==
  [web |-> query, loc |-> IF location = None THEN "" ELSE location, k |-> max_results]

\* the three fixed samples of _mock_results, by the city they are about
samples == <<"hamadan", "shiraz", "esfahan">>

\* location.lower() in title.lower() or location.lower() in snippet.lower()
Mentions(sample, location) == location = sample

\* results[:n] of Python, n possibly negative
Slice(seq, n) ==
  IF n >= 0 THEN SubSeq(seq, 1, IF n < Len(seq) THEN n ELSE Len(seq))
  ELSE SubSeq(seq, 1, IF Len(seq) + n > 0 THEN Len(seq) + n ELSE 0)

\* faulty variant of _mock_results: only the samples that mention the
\* location are returned
_mock_results_mutant(query, location, max_results) ==
  LET matching == IF location \in {None, ""} THEN <<>>
                  ELSE SelectSeq(samples, LAMBDA x : Mentions(x, location))
  IN Slice(matching, max_results)

\* _mock_results(query, location, max_results)
_mock_results(query, location, max_results) ==
  LET matching == IF location \in {None, ""} THEN <<>>
                  ELSE SelectSeq(samples, LAMBDA x : Mentions(x, location))
      rest == SelectSeq(samples,
                LAMBDA x : \A i \in 1..Len(matching) : matching[i] # x)
  IN Slice(matching \o rest, max_results)

NoEntry == [ts |-> -1]

\* faulty variant of _cache_get: an entry whose age is exactly ttl is
\* already dropped
_cache_get_mutant(cache, key, ttl, t) ==
  IF cache[key] = NoEntry THEN [cache |-> cache, hit |-> FALSE, value |-> <<>>]
  ELSE IF t - cache[key].ts >= ttl
  THEN [cache |-> [cache EXCEPT ![key] = NoEntry], hit |-> FALSE, value |-> <<>>]
  ELSE [cache |-> cache, hit |-> TRUE, value |-> cache[key].value]

\* _cache_get(key) at time t: the cache afterwards, whether a value is
\* returned (not None) and the value
_cache_get(cache, key, ttl, t) ==
  IF cache[key] = NoEntry THEN [cache |-> cache, hit |-> FALSE, value |-> <<>>]
  ELSE IF t - cache[key].ts > ttl
  THEN [cache |-> [cache EXCEPT ![key] = NoEntry], hit |-> FALSE, value |-> <<>>]
  ELSE [cache |-> cache, hit |-> TRUE, value |-> cache[key].value]

\* _cache_set(key, value) at time t
_cache_set(cache, key, value, t) == [cache EXCEPT ![key] = [ts |-> t, value |-> value]]

\* what requests.get / raise_for_status / resp.json() do in _call_tavily:
\* raise (an outage) or give the items of the JSON answer
Outage == [ok |-> FALSE]

Answer(items) == [ok |-> TRUE, items |-> items]

\* _call_tavily returning: items[:max_results]
_call_tavily(items, max_results) == Slice(items, max_results)

SearchResult(source, query, results) ==
  [success |-> TRUE, source |-> source, query |-> query, results |-> results]

\* WebSearchTool.search on an object with self.ttl, self.min_interval and
\* self._last_query_time = last, the module's _cache = cache, the clock
\* reading t and the provider answering provider: the new cache, the new
\* _last_query_time, the clock afterwards, whether the provider was called
\* and the returned mapping
search(cache, last, t, ttl, min_interval, query, location, max_results, provider) ==
  LET key == _make_cache_key(query, location, max_results)
      early == t - last[key] < min_interval
      g1 == _cache_get(cache, key, ttl, t)
  IN
  IF early /\ g1.hit
  THEN [cache |-> g1.cache, last |-> last, now |-> t, attempted |-> FALSE,
        result |-> SearchResult("cache", query, g1.value)]
  ELSE
    LET c1 == IF early THEN g1.cache ELSE cache
        t1 == IF early THEN last[key] + min_interval ELSE t
        g2 == _cache_get(c1, key, ttl, t1)
    IN
    IF g2.hit
    THEN [cache |-> g2.cache, last |-> [last EXCEPT ![key] = t1], now |-> t1,
          attempted |-> FALSE, result |-> SearchResult("cache", query, g2.value)]
    ELSE
      LET results == IF provider = Outage
                     THEN _mock_results(query, location, max_results)
                     ELSE _call_tavily(provider.items, max_results)
      IN [cache |-> _cache_set(g2.cache, key, results, t1),
          last |-> [last EXCEPT ![key] = t1], now |-> t1, attempted |-> TRUE,
          result |-> SearchResult(IF provider = Outage THEN "mock" ELSE "tavily",
                                  query, results)]

\* ---- the searches explored
\* the text of the user's message
UserMessage == "user_message"

QueryInputs == {UserMessage}

LocationInputs == {None, "", "shiraz"}

MaxResultsInputs == {0, 2}

\* max_results of a web_search call without "max_results" (Tools.run)
DefaultMaxResults == 5

CacheKeys ==
  {_make_cache_key(q, l, k) : q \in QueryInputs, l \in LocationInputs,
                              k \in MaxResultsInputs \cup {DefaultMaxResults}}

\* answers of the live provider: an outage, no item, one item
ProviderAnswers == {Outage, Answer(<<>>), Answer(<<"live-1">>)}

\* document lists rag.query returns
RagAnswers == {<<>>, <<"doc-1">>}

\* clock readings explored, in seconds after Epoch: the same instant, one
\* min_interval later, and ttl after that (ttl and ttl + 1 after the start)
Instants == {0, 1, 301}

\* --------------------------------------------------------- LLM outputs
\* The text the provider returns for one completion:
\*   [kind |-> "text", words |-> <<...>>]  text that is not JSON
\*   [kind |-> "broken"]                   text starting with "{" that json.loads rejects
\*   [kind |-> "json", obj |-> [...]]      a JSON object
\* and ProviderError when the call raises.
Text(words) == [kind |-> "text", words |-> words]

Json(obj) == [kind |-> "json", obj |-> obj]

BrokenJson == [kind |-> "broken"]

ProviderError == [kind |-> "provider_error"]

NoOutput == [kind |-> "none"]

\* json.loads(text) raises JSONDecodeError
JSONDecodeError(out) == out.kind # "json"

\* text.strip().startswith("{")
StartsWithBrace(out) == out.kind \in {"json", "broken"}

\* "word" in text (lower-cased), for a text made of words
Contains(out, word) ==
  out.kind = "text" /\ \E i \in 1..Len(out.words) : out.words[i] = word

\* obj.get(key) is truthy (present, not null, not ""), for a key holding text
Truthy(obj, key) == key \in DOMAIN obj /\ obj[key] # Text(<<>>)

\* obj.get(key) is truthy, for a key holding a token
TruthyToken(obj, key) == key \in DOMAIN obj /\ obj[key] \notin {"", None}

\* fixed response texts of orchestrator.py
ParseErrorMsg == Text(<<"Error", "parsing", "booking", "response.">>)

BookedMsg == Text(<<"rezerv", "ba", "movaffaqiat", "anjam", "shod">>)

CancelledMsg == Text(<<"belit", "ba", "movaffaqiat", "cancel", "shod">>)

\* ---- what the model is taken to answer (bounded)
BookDataValid ==
  [origin |-> "Tehran", destination |-> "Kish", date |-> DateISO,
   passenger |-> PassengerFull]

BookDataInvalid ==
  [origin |-> "Paris", destination |-> "Kish", date |-> DateISO,
   passenger |-> PassengerFull]

ToolCall(tool, params) == Json([tool |-> tool, params |-> params])

OrchTicketIds == {uuid4(1), "98421375"}

BookCalls == {ToolCall("api_book_ticket", d) : d \in {BookDataValid, BookDataInvalid}}

CancelCalls == {ToolCall("api_cancel_ticket", [ticket_id |-> t]) : t \in OrchTicketIds}

InfoCalls ==
  {ToolCall("api_get_ticket_info", [ticket_id |-> t]) : t \in OrchTicketIds}
    \cup {ToolCall("api_get_ticket_info", NullParams)}

QuestionOrigin == Text(<<"Please", "provide", "the", "origin", "city">>)

QuestionPhone == Text(<<"Please", "correct", "the", "phone", "number">>)

SlotsFilled == "slots-filled"

SlotsPartial == "slots-partial"

SlotJson(slots, question) ==
  Json([intent |-> "book_ticket", slots |-> slots, question |-> question])

\* the tool calls the model is taken to emit at a step
ToolCalls(step) ==
  IF step \in {"validation", "confirm"}
  THEN {ToolCall("api_get_ticket_info", [ticket_id |-> "98421375"])}
  ELSE IF step = "slot" THEN {ToolCall("api_book_ticket", BookDataValid)}
  ELSE IF step = "trigger" THEN BookCalls
  ELSE IF step = "cancel" THEN CancelCalls
  ELSE IF step = "info" THEN InfoCalls
  ELSE {}

\* the other completions the model is taken to return at a step
PlainOutputs(step) ==
  IF step = "lang" THEN {Text(<<"EN">>), Text(<<"farsi">>)}
  ELSE IF step = "intent"
  THEN {Text(<<"book_ticket">>), Text(<<"cancel_ticket">>),
        Text(<<"get_ticket_info">>), Text(<<"travel_suggestion">>),
        Text(<<"rag_question">>), Text(<<"general_question">>),
        Json([intent |-> "general_question"]), Json([intent |-> "weather"]),
        Json([label |-> "book_ticket"])}
  ELSE IF step = "slot"
  THEN {SlotJson(SlotsPartial, QuestionOrigin), SlotJson(SlotsFilled, Text(<<>>)),
        Text(<<"which", "city">>)}
  ELSE IF step = "validation"
  THEN {SlotJson(SlotsFilled, QuestionPhone), SlotJson(SlotsFilled, Text(<<>>))}
  ELSE IF step = "confirm"
  THEN {Text(<<"please", "confirm", "the", "booking">>), Text(<<"summary">>)}
  ELSE IF step = "trigger" THEN {Text(<<"booking", "done">>)}
  ELSE IF step = "cancel" THEN {Text(<<"which", "ticket">>), BrokenJson}
  ELSE IF step = "info" THEN {Text(<<"which", "ticket">>)}
  ELSE {Text(<<"answer">>)}

\* the provider call raises
Failures(step) ==
  IF step \in {"lang", "intent", "trigger", "cancel", "general"} THEN {ProviderError}
  ELSE {}

\* first completion of a chat() made at step
FirstOutputs(step) == PlainOutputs(step) \cup ToolCalls(step) \cup Failures(step)

\* second completion of a chat(), made after a tool result
FollowUps(step) ==
  IF step = "slot"
  THEN {SlotJson(SlotsPartial, QuestionOrigin), SlotJson(SlotsFilled, Text(<<>>))}
  ELSE IF step = "validation" THEN {SlotJson(SlotsFilled, Text(<<>>))}
  ELSE IF step = "confirm" THEN {Text(<<"please", "confirm", "the", "booking">>)}
  ELSE IF step = "trigger"
  THEN PlainOutputs(step) \cup Failures(step)
         \cup {ToolCall("api_book_ticket", BookDataValid)}
  ELSE PlainOutputs(step) \cup Failures(step)
         \cup (IF step \in {"cancel", "info"} THEN ToolCalls(step) ELSE {})

\* ---------------------------------------------------------- ChatManager
\* the prompt constant a step of run() puts in front of its chat() message
PromptOf(step) ==
  IF step = "lang" THEN "LANGUAGE_DETECTION_PROMPT"
  ELSE IF step = "intent" THEN "INTENT_CLASSIFICATION_PROMPT"
  ELSE IF step = "slot" THEN "BOOKING_SLOT_FILLING_PROMPT + DATE_INTERPRETATION_PROMPT"
  ELSE IF step = "validation" THEN "PASSENGER_VALIDATION_PROMPT"
  ELSE IF step = "confirm" THEN "BOOKING_CONFIRMATION_PROMPT"
  ELSE IF step = "trigger" THEN "BOOKING_TOOL_TRIGGER_PROMPT"
  ELSE IF step = "cancel" THEN "CANCEL_TOOL_TRIGGER_PROMPT"
  ELSE IF step = "info" THEN "INFO_TOOL_TRIGGER_PROMPT"
  ELSE ""

\* the message argument of the chat() made at step: the prompt constant
\* followed by the user's message or by json.dumps(slots); the last chat of
\* run() (step "general") passes the user's message alone
ChatMessage(step) ==
  [prefix |-> PromptOf(step),
   body |-> IF step \in {"validation", "confirm", "trigger"} THEN "slots"
            ELSE UserMessage]

NoCall == [op |-> None, ticket_id |-> None]

Call(op, ticket_id) == [op |-> op, ticket_id |-> ticket_id]

\* the ticket id among the params of a tool call, None when there is none
ParamTicketId(params) ==
  IF "ticket_id" \in DOMAIN params THEN params.ticket_id ELSE None

\* _detect_tool_call(response) is not None
_detect_tool_call(out) == out.kind = "json" /\ "tool" \in DOMAIN out.obj

\* status 0: the result carries no "status"
LogEntry(by, tool, result) ==
  [by |-> by, tool |-> tool,
   status |-> IF "status" \in DOMAIN result THEN result.status ELSE 0]

\* faulty variant of chat: a failure of the follow-up completion is
\* swallowed and chat() goes on to append and return
chat_mutant(dict, lines, first, second, ticket_id) ==
  LET untouched ==
        [tickets |-> dict, file |-> lines, booked |-> FALSE, ran |-> FALSE,
         log |-> <<>>]
  IN
  IF first = ProviderError
  THEN untouched @@ [raised |-> TRUE, msg |-> NoOutput]
  ELSE IF ~_detect_tool_call(first)
  THEN untouched @@ [raised |-> FALSE, msg |-> first]
  ELSE
    LET r == ToolsRun(dict, lines, first.obj.tool, first.obj.params, ticket_id)
        done == [tickets |-> r.tickets, file |-> r.file, booked |-> r.booked,
                 ran |-> TRUE, result |-> r.result,
                 call |-> Call(first.obj.tool, ParamTicketId(first.obj.params)),
                 log |-> <<LogEntry("chat_manager", first.obj.tool, r.result)>>]
    IN IF IsRaised(r.result)
       THEN done @@ [raised |-> TRUE, msg |-> NoOutput]
       ELSE done @@ [raised |-> FALSE,
                     msg |-> IF second = ProviderError THEN NoOutput ELSE second]

\* ChatManager.chat: first the completion first, then, if it is a tool call,
\* self.tools.run and the completion second.  raised: chat() raised;
\* msg: the returned assistant_msg; ran: whether a tool was run
chat(dict, lines, first, second, ticket_id) ==
  LET untouched ==
        [tickets |-> dict, file |-> lines, booked |-> FALSE, ran |-> FALSE,
         log |-> <<>>]
  IN
  IF first = ProviderError
  THEN untouched @@ [raised |-> TRUE, msg |-> NoOutput]
  ELSE IF ~_detect_tool_call(first)
  THEN untouched @@ [raised |-> FALSE, msg |-> first]
  ELSE
    LET r == ToolsRun(dict, lines, first.obj.tool, first.obj.params, ticket_id)
        done == [tickets |-> r.tickets, file |-> r.file, booked |-> r.booked,
                 ran |-> TRUE, result |-> r.result,
                 call |-> Call(first.obj.tool, ParamTicketId(first.obj.params)),
                 log |-> <<LogEntry("chat_manager", first.obj.tool, r.result)>>]
    IN IF IsRaised(r.result) \/ second = ProviderError
       THEN done @@ [raised |-> TRUE, msg |-> NoOutput]
       ELSE done @@ [raised |-> FALSE, msg |-> second]

\* faulty variant of setdefault_append: the new turn is put in front
setdefault_append_mutant(memory, user_id, message, assistant_msg) ==
  [memory EXCEPT
     ![user_id] = <<[user |-> message, assistant |-> assistant_msg]>> \o @]

\* self.session_memory.setdefault(user_id, []).append({"user": message,
\* "assistant": assistant_msg}); a user without history has <<>>
setdefault_append(memory, user_id, message, assistant_msg) ==
  [memory EXCEPT
     ![user_id] = Append(@, [user |-> message, assistant |-> assistant_msg])]

\* str.lower() of a one-word text
Lower(word) ==
  IF word = "EN" THEN "en" ELSE IF word = "FA" THEN "fa" ELSE word

\* faulty variant of _detect_language_llm: the answer is returned as it is
_detect_language_llm_mutant(r) ==
  IF r.raised THEN "fa"
  ELSE IF r.msg.kind = "text" /\ Len(r.msg.words) = 1 THEN Lower(r.msg.words[1])
  ELSE "fa"

\* _detect_language_llm, given the outcome r of its chat()
_detect_language_llm(r) ==
  IF r.raised THEN "fa"
  ELSE IF r.msg.kind = "text" /\ Len(r.msg.words) = 1
          /\ Lower(r.msg.words[1]) \in {"fa", "en"}
  THEN Lower(r.msg.words[1])
  ELSE "fa"

valid_intents ==
  {"book_ticket", "cancel_ticket", "get_ticket_info", "travel_suggestion", "rag_question"}

\* faulty variant of _detect_intent_llm: an answer that is no JSON is
\* returned as the intent
_detect_intent_llm_mutant(r) ==
  IF r.raised THEN "travel_suggestion"
  ELSE IF r.msg.kind = "text" /\ Len(r.msg.words) = 1 THEN r.msg.words[1]
  ELSE IF JSONDecodeError(r.msg) THEN "travel_suggestion"
  ELSE IF TruthyToken(r.msg.obj, "intent") THEN r.msg.obj.intent
  ELSE None

\* _detect_intent_llm, given the outcome r of its chat(); a JSON object
\* without a truthy "intent" makes the function fall off its end (None)
_detect_intent_llm(r) ==
  IF r.raised THEN "travel_suggestion"
  ELSE IF r.msg.kind = "text" /\ Len(r.msg.words) = 1 /\ r.msg.words[1] \in valid_intents
  THEN r.msg.words[1]
  ELSE IF JSONDecodeError(r.msg) THEN "travel_suggestion"
  ELSE IF TruthyToken(r.msg.obj, "intent") THEN r.msg.obj.intent
  ELSE None

\* the first statement run() executes for an intent
Dispatch(intent) ==
  IF intent = "book_ticket" THEN "slot"
  ELSE IF intent = "cancel_ticket" THEN "cancel"
  ELSE IF intent = "get_ticket_info" THEN "info"
  ELSE IF intent = "travel_suggestion" THEN "suggest"
  ELSE IF intent = "rag_question" THEN "rag"
  ELSE "general"

\* the prompt _interpret_date_with_llm puts in front of its chat() message
DatePrompt == "DATE_INTERPRETATION_PROMPT"

\* _interpret_date_with_llm, given the outcome r of its chat(): the parsed
\* object, or the error-flagged date info when json.loads fails.  No
\* statement of run() or of a handler calls it.
_interpret_date_with_llm(r) ==
  IF JSONDecodeError(r.msg)
  THEN [jalali |-> None, gregorian |-> None, error |-> "llm_parse_failed"]
  ELSE r.msg.obj

\* --------------------------------------------------------------- state
\* WebSearchTool(tavily_apikey): ttl and min_interval take their defaults
DefaultSettings == [ttl |-> DEFAULT_TTL, min_interval |-> MIN_INTERVAL_PER_QUERY]

Users == {"u1", "u2"}

\* the user whose messages run() is given
RunUsers == {"u1"}

VARIABLES
  tickets,         \* tickets[i]: self.tickets of the TicketAPISimulator of Tools i
  file,            \* the lines of data/tickets.txt
  issued,          \* number of uuid4 identifiers drawn so far
  call,            \* the last Tools.run / ticket operation: tool name and ticket id
  ret,             \* the mapping it returned
  session_memory,  \* ChatManager.session_memory: user_id -> list of turns
  pc,              \* position of Orchestrator.run: idle, a step, done, raised
  turn,            \* the local variables of the current run()
  response,        \* the dict run() returned
  tool_log,        \* the Tools.run calls made since the current run() began
  turns,           \* number of run() calls so far
  _cache,          \* web_search._cache: cache key -> entry
  _last_query_time, \* _last_query_time[i]: self._last_query_time of the WebSearchTool of Tools i
  now,             \* time.time()
  searches,        \* number of tools.run("web_search", ..) calls so far
  settings,        \* self.ttl and self.min_interval of the WebSearchTool objects
  pending          \* the book_ticket and the cancel_ticket call that are under way

storeVars == <<tickets, file, issued, call, ret>>

orchVars == <<session_memory, pc, turn, response, tool_log, turns>>

webVars == <<_cache, _last_query_time, now, searches, settings>>

vars ==
  <<tickets, file, issued, call, ret, session_memory, pc, turn, response, tool_log, turns,
    _cache, _last_query_time, now, searches, settings, pending>>

\* no call is between two of its statements
NoPending == [book |-> <<>>, cancel |-> <<>>]

NoReturn == [status |-> 0]

NoResponse == [response |-> NoOutput]

NoTurn ==
  [user_id |-> None, lang |-> None, intent |-> None, slot_resp |-> NoOutput,
   validation_resp |-> NoOutput, confirm_resp |-> NoOutput, resp |-> NoOutput]

\* Orchestrator() has run: ChatManager() and Tools() each built a
\* TicketAPISimulator, which loaded the (empty) file
Init ==
  /\ file = <<>>
  /\ tickets = [i \in Instances |-> _load_from_file(<<>>)]
  /\ issued = 0
  /\ call = NoCall
  /\ ret = NoReturn
  /\ session_memory = [u \in Users |-> <<>>]
  /\ pc = "idle"
  /\ turn = NoTurn
  /\ response = NoResponse
  /\ tool_log = <<>>
  /\ turns = 0
  /\ _cache = [k \in CacheKeys |-> NoEntry]
  /\ _last_query_time = [i \in Instances |-> [k \in CacheKeys |-> 0]]
  /\ now = Epoch
  /\ searches = 0
  /\ settings = DefaultSettings
  /\ pending = NoPending

\* ----------------------------------------------------- ticket operations
\* tools.run("api_book_ticket", data) on Tools object i
BookTicket(i, data) ==
  \E r \in {book_ticket(tickets[i], file, data, uuid4(issued + 1))} :
     /\ r.booked => issued < MaxTickets
     /\ tickets' = [tickets EXCEPT ![i] = r.tickets]
     /\ file' = r.file
     /\ issued' = IF r.booked THEN issued + 1 ELSE issued
     /\ call' = Call("api_book_ticket", None)
     /\ ret' = r.result
     /\ UNCHANGED <<orchVars, webVars, pending>>

\* tools.run("api_cancel_ticket", {"ticket_id": ticket_id}) on Tools object i
CancelTicket(i, ticket_id) ==
  \E r \in {cancel_ticket(tickets[i], file, ticket_id)} :
     /\ tickets' = [tickets EXCEPT ![i] = r.tickets]
     /\ file' = r.file
     /\ call' = Call("api_cancel_ticket", ticket_id)
     /\ ret' = r.result
     /\ UNCHANGED issued
     /\ UNCHANGED <<orchVars, webVars, pending>>

\* tools.run("api_get_ticket_info", {"ticket_id": ticket_id}) on Tools object i
GetTicketInfo(i, ticket_id) ==
  /\ call' = Call("api_get_ticket_info", ticket_id)
  /\ ret' = get_ticket_info(tickets[i], ticket_id)
  /\ UNCHANGED <<tickets, file, issued>>
  /\ UNCHANGED <<orchVars, webVars, pending>>

\* the process is started again: ChatManager() and Tools() build fresh
\* TicketAPISimulator objects, each loading the file; session_memory, the
\* module's _cache and every _last_query_time are new
Restart ==
  /\ tickets' = [i \in Instances |-> _load_from_file(file)]
  /\ call' = NoCall
  /\ ret' = NoReturn
  /\ session_memory' = [u \in Users |-> <<>>]
  /\ pc' = "idle"
  /\ turn' = NoTurn
  /\ response' = NoResponse
  /\ tool_log' = <<>>
  /\ turns' = 0
  /\ _cache' = [k \in CacheKeys |-> NoEntry]
  /\ _last_query_time' = [i \in Instances |-> [k \in CacheKeys |-> 0]]
  /\ searches' = 0
  /\ UNCHANGED <<file, issued, now, settings, pending>>

Next ==
  \/ \E i \in Instances, data \in BookInputs : BookTicket(i, data)
  \/ \E i \in Instances, ticket_id \in TicketIdInputs : CancelTicket(i, ticket_id)
  \/ \E i \in Instances, ticket_id \in TicketIdInputs : GetTicketInfo(i, ticket_id)
  \/ Restart

\* the ticket operations, called on either Tools object in any order
Spec == Init /\ [][Next]_vars

\* -------------------------------------------------------- Orchestrator.run
\* the outcomes of self.chat_manager.chat(...) made at step
ChatOutcomes(step) ==
  {chat(tickets["chat_manager"], file, first, second, uuid4(issued + 1)) :
     first \in FirstOutputs(step), second \in FollowUps(step)}

\* the effect of a chat(user_id, ...) with outcome r on the objects it touches
ApplyChatTo(user_id, r, step) ==
  /\ r.booked => issued < MaxTickets
  /\ tickets' = [tickets EXCEPT !["chat_manager"] = r.tickets]
  /\ file' = r.file
  /\ issued' = IF r.booked THEN issued + 1 ELSE issued
  /\ call' = IF r.ran THEN r.call ELSE call
  /\ ret' = IF r.ran THEN r.result ELSE ret
  /\ session_memory' =
       IF r.raised THEN session_memory
       ELSE setdefault_append(session_memory, user_id, ChatMessage(step), r.msg)
  /\ UNCHANGED <<webVars, pending>>

\* a chat() made by run() for the user of the turn
ApplyChat(r, step) ==
  /\ ApplyChatTo(turn.user_id, r, step)
  /\ tool_log' = tool_log \o r.log

\* self.tools.run(tool_call["tool"], tool_call["params"]) of a handler
ApplyRun(tool_call, r) ==
  /\ r = ToolsRun(tickets["orchestrator"], file, tool_call.tool, tool_call.params,
                  uuid4(issued + 1))
  /\ r.booked => issued < MaxTickets
  /\ tickets' = [tickets EXCEPT !["orchestrator"] = r.tickets]
  /\ file' = r.file
  /\ issued' = IF r.booked THEN issued + 1 ELSE issued
  /\ call' = Call(tool_call.tool, ParamTicketId(tool_call.params))
  /\ ret' = r.result
  /\ tool_log' = Append(tool_log, LogEntry("orchestrator", tool_call.tool, r.result))
  /\ UNCHANGED <<session_memory, webVars, pending>>

\* json.loads(text) succeeds and tool_call["tool"], tool_call["params"] exist
IsToolCall(out) ==
  ~JSONDecodeError(out) /\ {"tool", "params"} \subseteq DOMAIN out.obj

\* run(user_id, user_message) is called
StartTurn(user_id) ==
  /\ pc \in {"idle", "done", "raised"}
  /\ turns < MaxTurns
  /\ turns' = turns + 1
  /\ pc' = "lang"
  /\ turn' = [NoTurn EXCEPT !.user_id = user_id]
  /\ response' = NoResponse
  /\ tool_log' = <<>>
  /\ UNCHANGED <<tickets, file, issued, call, ret, session_memory, webVars, pending>>

\* lang = self._detect_language_llm(user_id, user_message)
DetectLanguage ==
  /\ pc = "lang"
  /\ \E r \in ChatOutcomes("lang") :
       /\ ApplyChat(r, "lang")
       /\ turn' = [turn EXCEPT !.lang = _detect_language_llm(r)]
  /\ pc' = "intent"
  /\ UNCHANGED <<response, turns>>

\* intent = self._detect_intent_llm(user_id, user_message), then the dispatch
DetectIntent ==
  /\ pc = "intent"
  /\ \E r \in ChatOutcomes("intent") :
       /\ ApplyChat(r, "intent")
       /\ turn' = [turn EXCEPT !.intent = _detect_intent_llm(r)]
       /\ pc' = Dispatch(_detect_intent_llm(r))
  /\ UNCHANGED <<response, turns>>

\* _handle_booking, lines 50-63: slot extraction
SlotFilling ==
  /\ pc = "slot"
  /\ \E r \in ChatOutcomes("slot") :
       /\ ApplyChat(r, "slot")
       /\ turn' = [turn EXCEPT !.slot_resp = r.msg]
       /\ IF r.raised THEN pc' = "raised" /\ UNCHANGED response
          ELSE IF JSONDecodeError(r.msg)
          THEN pc' = "done" /\ response' = [response |-> ParseErrorMsg]
          ELSE IF Truthy(r.msg.obj, "question")
          THEN pc' = "done" /\ response' = [response |-> r.msg.obj.question]
          ELSE pc' = "validation" /\ UNCHANGED response
  /\ UNCHANGED turns

\* _handle_booking, lines 64-79: the validation chat; line 72 parses slot_resp
Validation ==
  /\ pc = "validation"
  /\ \E r \in ChatOutcomes("validation") :
       /\ ApplyChat(r, "validation")
       /\ turn' = [turn EXCEPT !.validation_resp = r.msg]
       /\ IF r.raised THEN pc' = "raised" /\ UNCHANGED response
          ELSE IF JSONDecodeError(turn.slot_resp)
          THEN pc' = "done" /\ response' = [response |-> ParseErrorMsg]
          ELSE IF Truthy(turn.slot_resp.obj, "question")
          THEN pc' = "done" /\ response' = [response |-> turn.slot_resp.obj.question]
          ELSE pc' = "confirm" /\ UNCHANGED response
  /\ UNCHANGED turns

\* _handle_booking, lines 80-87: the confirmation summary
Confirmation ==
  /\ pc = "confirm"
  /\ \E r \in ChatOutcomes("confirm") :
       /\ ApplyChat(r, "confirm")
       /\ turn' = [turn EXCEPT !.confirm_resp = r.msg]
       /\ IF r.raised THEN pc' = "raised" /\ UNCHANGED response
          ELSE IF ~Contains(r.msg, "taeid") /\ ~Contains(r.msg, "confirm")
          THEN pc' = "done" /\ response' = [response |-> r.msg]
          ELSE pc' = "trigger" /\ UNCHANGED response
  /\ UNCHANGED turns

\* _handle_booking, lines 89-96: the tool trigger chat and json.loads
ToolTrigger ==
  /\ pc = "trigger"
  /\ \E r \in ChatOutcomes("trigger") :
       /\ ApplyChat(r, "trigger")
       /\ turn' = [turn EXCEPT !.resp = r.msg]
       /\ pc' = IF r.raised \/ ~IsToolCall(r.msg) THEN "raised" ELSE "book_run"
  /\ UNCHANGED <<response, turns>>

\* _handle_booking, lines 98-106
BookingRun ==
  /\ pc = "book_run"
  /\ \E r \in {ToolsRun(tickets["orchestrator"], file, turn.resp.obj.tool,
                        turn.resp.obj.params, uuid4(issued + 1))} :
       /\ ApplyRun(turn.resp.obj, r)
       /\ IF IsRaised(r.result) THEN pc' = "raised" /\ UNCHANGED response
          ELSE pc' = "done" /\ response' = [response |-> BookedMsg, tool_result |-> r.result]
  /\ UNCHANGED <<turn, turns>>

\* _handle_cancel, lines 109-115
HandleCancel ==
  /\ pc = "cancel"
  /\ \E r \in ChatOutcomes("cancel") :
       /\ ApplyChat(r, "cancel")
       /\ turn' = [turn EXCEPT !.resp = r.msg]
       /\ IF r.raised THEN pc' = "raised" /\ UNCHANGED response
          ELSE IF ~StartsWithBrace(r.msg)
          THEN pc' = "done" /\ response' = [response |-> r.msg]
          ELSE IF ~IsToolCall(r.msg) THEN pc' = "raised" /\ UNCHANGED response
          ELSE pc' = "cancel_run" /\ UNCHANGED response
  /\ UNCHANGED turns

\* _handle_cancel, lines 116-121
CancelRun ==
  /\ pc = "cancel_run"
  /\ \E r \in {ToolsRun(tickets["orchestrator"], file, turn.resp.obj.tool,
                        turn.resp.obj.params, uuid4(issued + 1))} :
       /\ ApplyRun(turn.resp.obj, r)
       /\ IF IsRaised(r.result) THEN pc' = "raised" /\ UNCHANGED response
          ELSE pc' = "done" /\ response' = [response |-> CancelledMsg, tool_result |-> r.result]
  /\ UNCHANGED <<turn, turns>>

\* _handle_info, lines 124-130
HandleInfo ==
  /\ pc = "info"
  /\ \E r \in ChatOutcomes("info") :
       /\ ApplyChat(r, "info")
       /\ turn' = [turn EXCEPT !.resp = r.msg]
       /\ IF r.raised THEN pc' = "raised" /\ UNCHANGED response
          ELSE IF ~StartsWithBrace(r.msg)
          THEN pc' = "done" /\ response' = [response |-> r.msg]
          ELSE IF ~IsToolCall(r.msg) THEN pc' = "raised" /\ UNCHANGED response
          ELSE pc' = "info_run" /\ UNCHANGED response
  /\ UNCHANGED turns

\* _handle_info, lines 131-135: the response is json.dumps(result)
InfoRun ==
  /\ pc = "info_run"
  /\ \E r \in {ToolsRun(tickets["orchestrator"], file, turn.resp.obj.tool,
                        turn.resp.obj.params, uuid4(issued + 1))} :
       /\ ApplyRun(turn.resp.obj, r)
       /\ IF IsRaised(r.result) THEN pc' = "raised" /\ UNCHANGED response
          ELSE pc' = "done" /\ response' = [response |-> Json(r.result)]
  /\ UNCHANGED <<turn, turns>>

\* run(), lines 238-244: general_question, unclear and any other intent
GeneralChat ==
  /\ pc = "general"
  /\ \E r \in ChatOutcomes("general") :
       /\ ApplyChat(r, "general")
       /\ IF r.raised THEN pc' = "raised" /\ UNCHANGED response
          ELSE /\ pc' = "done"
               /\ response' = [response |-> r.msg, lang |-> turn.lang,
                               intent |-> turn.intent]
  /\ UNCHANGED <<turn, turns>>

\* _handle_travel_suggestion: tools.run("web_search", {"query": message}),
\* that is search(message, None, 5) on the orchestrator's WebSearchTool
HandleTravelSuggestion ==
  /\ pc = "suggest"
  /\ \E provider \in ProviderAnswers :
       \E r \in {search(_cache, _last_query_time["orchestrator"], now, settings.ttl,
                        settings.min_interval, UserMessage, None, DefaultMaxResults,
                        provider)} :
          /\ _cache' = r.cache
          /\ _last_query_time' = [_last_query_time EXCEPT !["orchestrator"] = r.last]
          /\ now' = r.now
          /\ call' = Call("web_search", None)
          /\ ret' = r.result
          /\ tool_log' = Append(tool_log, LogEntry("orchestrator", "web_search", r.result))
          /\ response' = [response |-> Json(r.result)]
  /\ pc' = "done"
  /\ searches' = searches + 1
  /\ UNCHANGED <<tickets, file, issued, session_memory, turn, turns, settings, pending>>

\* _handle_rag, lines 193-199: tools.run("rag_query", ...) returns the
\* mapping {"results": docs}; the loop "for d in rag_docs" iterates over its
\* key, and d['metadata'] on the str "results" raises TypeError
HandleRag ==
  /\ pc = "rag"
  /\ \E docs \in RagAnswers :
       /\ call' = Call("rag_query", None)
       /\ ret' = [results |-> docs]
       /\ tool_log' = Append(tool_log, LogEntry("orchestrator", "rag_query", [results |-> docs]))
  /\ pc' = "raised"
  /\ UNCHANGED <<tickets, file, issued, session_memory, turn, response, turns, webVars, pending>>

NextOrch ==
  \/ \E u \in RunUsers : StartTurn(u)
  \/ DetectLanguage
  \/ DetectIntent
  \/ SlotFilling
  \/ Validation
  \/ Confirmation
  \/ ToolTrigger
  \/ BookingRun
  \/ HandleCancel
  \/ CancelRun
  \/ HandleInfo
  \/ InfoRun
  \/ GeneralChat
  \/ HandleTravelSuggestion
  \/ HandleRag
  \/ Restart

\* the messages of one process, handled one after the other by run()
SpecOrch == Init /\ [][NextOrch]_vars

\* ---------------------------------------------------------------- Tools.run
\* the calls explored: the ticket tools with well-formed and with null
\* params, and a tool name that is not registered
RunInputs ==
  {<<"api_book_ticket", d>> : d \in {BookDataValid, BookDataInvalid, NullParams}}
    \cup {<<"api_cancel_ticket", [ticket_id |-> t]>> : t \in TicketIdInputs}
    \cup {<<"api_get_ticket_info", [ticket_id |-> t]>> : t \in TicketIdInputs}
    \cup {<<"api_cancel_ticket", NullParams>>, <<"api_get_ticket_info", NullParams>>}
    \cup {<<"api_refund_ticket", [ticket_id |-> "98421375"]>>}

\* tools.run(tool_name, params) on Tools object i
RunTool(i, tool_name, params) ==
  \E r \in {ToolsRun(tickets[i], file, tool_name, params, uuid4(issued + 1))} :
     /\ r.booked => issued < MaxTickets
     /\ tickets' = [tickets EXCEPT ![i] = r.tickets]
     /\ file' = r.file
     /\ issued' = IF r.booked THEN issued + 1 ELSE issued
     /\ call' = Call(tool_name, ParamTicketId(params))
     /\ ret' = r.result
     /\ UNCHANGED <<orchVars, webVars, pending>>

NextTools ==
  \/ \E i \in Instances, c \in RunInputs : RunTool(i, c[1], c[2])
  \/ Restart

\* Tools.run called with any tool name on either Tools object, in any order
SpecTools == Init /\ [][NextTools]_vars

\* ------------------------------------------- interleaved ticket operations
\* the Tools object whose TicketAPISimulator two callers use at once
Shared == "orchestrator"

\* a second valid booking
BookDataTabriz == [BookDataValid EXCEPT !.destination = "Tabriz"]

\* book_ticket up to self.tickets[ticket_id] = ticket_info (tools.py:47-84)
BookInsert(data) ==
  /\ pending.book = <<>>
  /\ issued < MaxTickets
  /\ \E r \in {book_ticket(tickets[Shared], file, data, uuid4(issued + 1))} :
       /\ r.booked
       /\ tickets' = [tickets EXCEPT ![Shared] = r.tickets]
       /\ pending' = [pending EXCEPT !.book = <<r.result.data>>]
  /\ issued' = issued + 1
  /\ UNCHANGED <<file, call, ret, orchVars, webVars>>

\* book_ticket from self._append_to_file(ticket_info) to its return
BookAppend ==
  /\ pending.book # <<>>
  /\ file' = _append_to_file(file, pending.book[1])
  /\ call' = Call("api_book_ticket", None)
  /\ ret' = [status |-> 200, message |-> "Ticket booked successfully",
             data |-> pending.book[1]]
  /\ pending' = [pending EXCEPT !.book = <<>>]
  /\ UNCHANGED <<tickets, issued, orchVars, webVars>>

\* cancel_ticket up to ticket["status"] = "cancelled" (tools.py:100-106),
\* for a ticket id that a booking has returned
CancelMark(ticket_id) ==
  /\ pending.cancel = <<>>
  /\ \A k \in 1..Len(pending.book) : pending.book[k].ticket_id # ticket_id
  /\ HasKey(tickets[Shared], ticket_id)
  /\ tickets' = [tickets EXCEPT
                   ![Shared] = cancel_ticket(@, file, ticket_id).tickets]
  /\ pending' = [pending EXCEPT !.cancel = <<ticket_id>>]
  /\ UNCHANGED <<file, issued, call, ret, orchVars, webVars>>

\* cancel_ticket from self._rewrite_file() to its return
CancelRewrite ==
  /\ pending.cancel # <<>>
  /\ file' = _rewrite_file(tickets[Shared])
  /\ call' = Call("api_cancel_ticket", pending.cancel[1])
  /\ ret' = cancel_ticket(tickets[Shared], file, pending.cancel[1]).result
  /\ pending' = [pending EXCEPT !.cancel = <<>>]
  /\ UNCHANGED <<tickets, issued, orchVars, webVars>>

NextInterleave ==
  \/ \E data \in {BookDataValid, BookDataTabriz} : BookInsert(data)
  \/ BookAppend
  \/ \E ticket_id \in TicketIdInputs : CancelMark(ticket_id)
  \/ CancelRewrite

\* a book_ticket and a cancel_ticket on one TicketAPISimulator, their
\* statements interleaved in any order
SpecInterleave == Init /\ [][NextInterleave]_vars

\* ------------------------------------------------------------- web search
\* tools.run("web_search", {"query": .., "location": .., "max_results": ..})
\* on Tools object i, the live provider answering provider
Search(i, query, location, max_results, provider) ==
  \E r \in {search(_cache, _last_query_time[i], now, settings.ttl,
                   settings.min_interval, query, location, max_results, provider)} :
     /\ _cache' = r.cache
     /\ _last_query_time' = [_last_query_time EXCEPT ![i] = r.last]
     /\ now' = r.now
     /\ searches < MaxSearches
     /\ searches' = searches + 1
     /\ call' = Call("web_search", None)
     /\ ret' = r.result
     /\ UNCHANGED <<tickets, file, issued, orchVars, settings, pending>>

\* time passes between two operations: the clock reads Epoch + e
Tick(e) ==
  /\ e <= MaxElapsed
  /\ now < Epoch + e
  /\ now' = Epoch + e
  /\ UNCHANGED <<storeVars, orchVars, _cache, _last_query_time, searches, settings, pending>>

NextSearch ==
  \/ \E i \in Instances, query \in QueryInputs, location \in LocationInputs,
        max_results \in MaxResultsInputs, provider \in ProviderAnswers :
          Search(i, query, location, max_results, provider)
  \/ \E e \in Instants : Tick(e)
  \/ Restart

\* searches on either Tools object, with time passing in between
SpecSearch == Init /\ [][NextSearch]_vars

\* WebSearchTool(tavily_apikey, ttl, min_interval): the settings explored
SettingsInputs ==
  {DefaultSettings, [ttl |-> 0, min_interval |-> 2], [ttl |-> 2, min_interval |-> 0]}

\* the state after construction with the WebSearchTool objects built with
\* one of the settings
InitSettings ==
  \E s \in SettingsInputs :
     /\ file = <<>>
     /\ tickets = [i \in Instances |-> _load_from_file(<<>>)]
     /\ issued = 0
     /\ call = NoCall
     /\ ret = NoReturn
     /\ session_memory = [u \in Users |-> <<>>]
     /\ pc = "idle"
     /\ turn = NoTurn
     /\ response = NoResponse
     /\ tool_log = <<>>
     /\ turns = 0
     /\ _cache = [k \in CacheKeys |-> NoEntry]
     /\ _last_query_time = [i \in Instances |-> [k \in CacheKeys |-> 0]]
     /\ now = Epoch
     /\ searches = 0
     /\ settings = s
     /\ pending = NoPending

\* the same searches, for every setting of ttl and min_interval
SpecSettings == InitSettings /\ [][NextSearch]_vars

\* Orchestrator.__init__: the default of max_tool_rounds
max_tool_rounds == 4

\* --------------------------------------------------------- ChatManager.chat
\* the prompts chat() is called with directly
ChatSteps == {"general", "cancel"}

\* chat(user_id, message) called on the ChatManager, outside run()
ChatCall(user_id, step) ==
  /\ Len(session_memory[user_id]) < MaxHistory
  /\ \E r \in ChatOutcomes(step) :
       /\ ApplyChatTo(user_id, r, step)
       /\ tool_log' = r.log
  /\ UNCHANGED <<pc, turn, response, turns>>

NextChat ==
  \E user_id \in Users, step \in ChatSteps : ChatCall(user_id, step)

\* chat() calls for two users in any order, within one process
SpecChat == Init /\ [][NextChat]_vars

\* ------------------------------------------------------------ properties
\* the ids of the tickets book_ticket has returned with status 200
BookedIds == {uuid4(n) : n \in 1..issued}

\* self.tickets of a fresh TicketAPISimulator built now
Reloaded == _load_from_file(file)

\* date_str is a str of the shape dddd-dd-dd
IsYYYYMMDD(date_str) ==
  /\ date_str.kind = "str"
  /\ Len(date_str.chars) = 10
  /\ \A i \in {1, 2, 3, 4, 6, 7, 9, 10} : IsDigit(date_str.chars[i])
  /\ date_str.chars[5] = "-"
  /\ date_str.chars[8] = "-"

\* passenger has no entry for one of full_name, national_id, phone
LacksRequired(passenger) ==
  passenger.kind # "dict" \/ MissingRequired(passenger)

\* C1: a book_ticket call whose origin or destination is outside the allowed
\* city set, whose date is not of the form YYYY-MM-DD, or whose passenger
\* lacks a required field returns status 400 and changes neither a ticket
\* dict nor the file.
C1_InvalidBookingRejected ==
  [][\A i \in Instances, data \in BookInputs :
       (/\ BookTicket(i, data)
        /\ \/ data.origin \notin valid_cities
           \/ data.destination \notin valid_cities
           \/ ~IsYYYYMMDD(data.date)
           \/ LacksRequired(data.passenger))
       => (ret'.status = 400 /\ tickets' = tickets /\ file' = file)]_vars

\* the lines of the file that do not belong to ticket_id
OtherLines(lines, ticket_id) ==
  SelectSeq(lines, LAMBDA l : json_loads(l).ticket_id # ticket_id)

\* C2: cancel_ticket on a ticket the object holds as confirmed sets its
\* status to cancelled in memory and in the rewritten file and returns
\* refund floor(price * 0.7); every other field of the ticket and every
\* other ticket, in memory and in the file, is left as it was.
C2_CancelConfirmed ==
  [][\A i \in Instances, ticket_id \in TicketIdInputs :
       (/\ CancelTicket(i, ticket_id)
        /\ HasKey(tickets[i], ticket_id)
        /\ DictGet(tickets[i], ticket_id).status = "confirmed")
       => LET before == DictGet(tickets[i], ticket_id)
          IN /\ ret'.status = 200
             /\ 10 * ret'.refund_amount <= 7 * before.price
             /\ 7 * before.price < 10 * (ret'.refund_amount + 1)
             /\ tickets' = [tickets EXCEPT
                  ![i] = DictSet(@, ticket_id, [before EXCEPT !.status = "cancelled"])]
             /\ HasKey(_load_from_file(file'), ticket_id)
             /\ DictGet(_load_from_file(file'), ticket_id)
                  = [before EXCEPT !.status = "cancelled"]
             /\ OtherLines(file', ticket_id) = OtherLines(file, ticket_id)]_vars

\* C3: cancel_ticket on a ticket the object already holds as cancelled
\* returns an error result and no refund.
C3_NoSecondRefund ==
  [][\A i \in Instances, ticket_id \in TicketIdInputs :
       (/\ CancelTicket(i, ticket_id)
        /\ HasKey(tickets[i], ticket_id)
        /\ DictGet(tickets[i], ticket_id).status = "cancelled")
       => (ret'.status # 200 /\ "refund_amount" \notin DOMAIN ret')]_vars

\* C4: cancel_ticket with an id that was never booked returns the 404
\* not-found error and leaves every ticket dict and the file as they were.
C4_CancelUnknownIsNotFound ==
  [][\A i \in Instances, ticket_id \in TicketIdInputs :
       (/\ ticket_id \notin BookedIds
        /\ call' = Call("api_cancel_ticket", ticket_id)
        /\ CancelTicket(i, ticket_id))
       => (/\ ret' = ErrorResult("Ticket not found", 404)
           /\ tickets' = tickets
           /\ file' = file)]_vars

\* a cancel_ticket of a never-booked id has returned, on a store holding tickets
C4_Witness ==
  /\ call = Call("api_cancel_ticket", "98421375")
  /\ ret.status = 404
  /\ file # <<>>
  /\ \E i \in Instances : tickets[i] # <<>>

\* the fields of a stored ticket that book_ticket takes from its argument
Passed(ticket) ==
  [origin |-> ticket.origin, destination |-> ticket.destination,
   date |-> ticket.travel_date, passenger |-> ticket.passenger]

\* get_ticket_info(ticket_id) on dict returns the ticket with the data passed
Returns(dict, ticket_id, data) ==
  /\ get_ticket_info(dict, ticket_id).status = 200
  /\ Passed(get_ticket_info(dict, ticket_id).data) = data

\* C5: after a successful book_ticket(data), get_ticket_info on the returned
\* id gives back origin, destination, travel date and passenger as passed,
\* on the booking object and on a fresh object that loads the file; no later
\* operation changes these fields of a ticket held in memory or in the file.
C5_RoundTrip ==
  [][/\ (call'.op = "api_book_ticket" /\ ret'.status = 200)
          => \A i \in Instances, data \in BookInputs :
               BookTicket(i, data)
               => /\ Returns(tickets'[i], ret'.data.ticket_id, data)
                  /\ Returns(_load_from_file(file'), ret'.data.ticket_id, data)
     /\ file' # file
          => \A old \in {_load_from_file(file)}, new \in {_load_from_file(file')} :
               \A t \in Keys(old) \cap Keys(new) :
                 Passed(DictGet(new, t)) = Passed(DictGet(old, t))
     /\ \A i \in Instances :
          tickets'[i] # tickets[i]
          => \A t \in Keys(tickets[i]) \cap Keys(tickets'[i]) :
               Passed(DictGet(tickets'[i], t)) = Passed(DictGet(tickets[i], t))]_vars

\* a booking with the one-digit month and day has been stored and reloads
C5_Witness ==
  /\ call.op = "api_book_ticket"
  /\ ret.status = 200
  /\ ret.data.travel_date = DateUnpadded
  /\ Returns(Reloaded, ret.data.ticket_id,
             [origin |-> "Tehran", destination |-> "Kish", date |-> DateUnpadded,
              passenger |-> PassengerFull])

\* C6: every ticket that was booked is still in the file.
C6_TicketsNeverDeleted == BookedIds \subseteq Keys(Reloaded)

\* the Tools.run calls of the current run() that name tool
Invocations(tool) == {k \in 1..Len(tool_log) : tool_log[k].tool = tool}

\* out is a JSON object whose "question" is non-empty
CarriesQuestion(out) == out.kind = "json" /\ Truthy(out.obj, "question")

\* C7: when the cancel handler's cancel_ticket call finds no such ticket
\* (404), the response of the turn is not the success confirmation.
C7_NotFoundReported ==
  (/\ pc = "done"
   /\ turn.intent = "cancel_ticket"
   /\ "tool_result" \in DOMAIN response
   /\ call.op = "api_cancel_ticket"
   /\ response.tool_result = ErrorResult("Ticket not found", 404))
  => response.response # CancelledMsg

\* C8: in a booking turn book_ticket is invoked, by the handler or inside
\* ChatManager.chat, only after a confirmation summary that carries the
\* confirmation token.
C8_NoBookingWithoutConfirmation ==
  (turn.intent = "book_ticket" /\ Invocations("api_book_ticket") # {})
  => (Contains(turn.confirm_resp, "confirm") \/ Contains(turn.confirm_resp, "taeid"))

\* C9: when the validation response carries a clarifying question the turn
\* ends with that question as its response; the handler goes on neither to
\* the confirmation summary nor to book_ticket.
C9_ValidationQuestionEndsTurn ==
  CarriesQuestion(turn.validation_resp)
  => (pc = "done" /\ response.response = turn.validation_resp.obj.question)

\* C10: when the slot-extraction output carries a non-empty question the
\* turn ends with exactly that question and no tool was invoked in the turn.
C10_QuestionMeansNoTool ==
  CarriesQuestion(turn.slot_resp)
  => (/\ pc = "done"
      /\ response.response = turn.slot_resp.obj.question
      /\ tool_log = <<>>)

\* the history of user u after the step is the history before it
NothingAppended(u) == session_memory'[u] = session_memory[u]

\* the assistant text of the newest turn of user u after the step
NewestAnswer(u) == session_memory'[u][Len(session_memory'[u])].assistant

\* the newest turn stored for user u
LastTurn(u) == session_memory[u][Len(session_memory[u])]

\* the answers that are "fa" or "en" once stripped and lower-cased
LanguageAnswers == {Text(<<w>>) : w \in {"fa", "en", "FA", "EN"}}

\* C11: language detection ends with lang "fa" or "en" and run() goes on to
\* intent detection; a provider failure (chat() raised, nothing appended) or
\* an answer other than fa / en gives "fa".
C11_LanguageFallback ==
  [][DetectLanguage
       => /\ pc' = "intent"
          /\ turn'.lang \in {"fa", "en"}
          /\ NothingAppended(turn.user_id) => turn'.lang = "fa"
          /\ (~NothingAppended(turn.user_id)
                /\ NewestAnswer(turn.user_id) \notin LanguageAnswers)
               => turn'.lang = "fa"]_vars

\* language detection has fallen back to "fa": on the answer "farsi"
C11_Witness ==
  /\ pc = "intent"
  /\ turn.lang = "fa"
  /\ session_memory[turn.user_id] # <<>>
  /\ LastTurn(turn.user_id).assistant = Text(<<"farsi">>)

\* the answers that are one of the valid intent tokens
IntentAnswers == {Text(<<w>>) : w \in valid_intents}

\* C12: a provider failure during intent classification, or an answer that
\* is no valid intent token and no JSON, gives intent travel_suggestion,
\* and run() dispatches on it.
C12_IntentFallback ==
  [][DetectIntent
       => ((\/ NothingAppended(turn.user_id)
            \/ /\ NewestAnswer(turn.user_id) \notin IntentAnswers
               /\ JSONDecodeError(NewestAnswer(turn.user_id)))
           => (turn'.intent = "travel_suggestion" /\ pc' = "suggest"))]_vars

\* intent classification has fallen back on the answer "general_question",
\* which is no valid intent token and no JSON
C12_Witness ==
  /\ pc = "suggest"
  /\ turn.intent = "travel_suggestion"
  /\ session_memory[turn.user_id] # <<>>
  /\ LastTurn(turn.user_id).assistant = Text(<<"general_question">>)

\* the module's cache holds no unexpired entry for key at the current time
NoFreshEntry(key) ==
  _cache[key] = NoEntry \/ now - _cache[key].ts > DEFAULT_TTL

\* every element of results is one of the fixed mock samples
FromSamples(results) ==
  \A j \in 1..Len(results) : \E n \in 1..Len(samples) : samples[n] = results[j]

\* C13: a search made while the provider is down, for a key without an
\* unexpired cache entry and with max_results >= 1, returns success with
\* source "mock" and a non-empty list of mock samples.
C13_OutageGivesMock ==
  [][call'.op = "web_search"
       => \A i \in Instances, query \in QueryInputs, location \in LocationInputs,
             max_results \in MaxResultsInputs :
            (/\ max_results >= 1
             /\ NoFreshEntry(_make_cache_key(query, location, max_results))
             /\ Search(i, query, location, max_results, Outage))
            => (/\ ret'.success
                /\ ret'.source = "mock"
                /\ ret'.query = query
                /\ ret'.results # <<>>
                /\ FromSamples(ret'.results))]_vars

\* a search during an outage has returned the mock samples, the one that
\* mentions the location first
C13_Witness ==
  /\ call.op = "web_search"
  /\ ret.source = "mock"
  /\ ret.results = <<"shiraz", "hamadan">>

\* C14: every Tools.run call returns a result mapping: none raises, and a
\* tool name that is not registered gets the "Unknown tool" error result.
C14_RunAlwaysReturns ==
  call.op # None
  => (/\ ~IsRaised(ret)
      /\ call.op = "api_refund_ticket" => ret = ErrorResult("Unknown tool", 400))

\* C15: whatever the provider does at any call site, run() returns a
\* response that carries reply text and no exception escapes run().
C15_RunAlwaysReplies ==
  /\ pc # "raised"
  /\ pc = "done" => "response" \in DOMAIN response

\* C16: when an output that had to be JSON (slot extraction, the booking,
\* cancel or info tool call) is not valid JSON, the turn ends with a text
\* response, nothing is raised and no tool has been invoked.
C16_BadJsonGivesText ==
  /\ (turn.slot_resp # NoOutput /\ JSONDecodeError(turn.slot_resp))
       => (pc = "done" /\ response.response = ParseErrorMsg /\ tool_log = <<>>)
  /\ (turn.resp # NoOutput /\ JSONDecodeError(turn.resp))
       => (pc = "done" /\ "response" \in DOMAIN response /\ tool_log = <<>>)


\* seq is an initial part of longer
IsPrefix(seq, longer) ==
  Len(seq) <= Len(longer) /\ SubSeq(longer, 1, Len(seq)) = seq

\* C17: every step keeps the stored turns of every user, in order, as the
\* front of that user's history, and a chat() for one user leaves the
\* history of every other user as it was.
C17_HistoryAppendOnly ==
  [][session_memory' # session_memory
     => /\ \A u \in Users : IsPrefix(session_memory[u], session_memory'[u])
        /\ \A u \in Users :
             (\E step \in ChatSteps : ChatCall(u, step))
             => \A v \in Users \ {u} : session_memory'[v] = session_memory[v]]_vars

\* a second turn was appended for u1 while u2 has a turn stored
C17_Witness ==
  /\ Len(session_memory["u1"]) = 2
  /\ Len(session_memory["u2"]) = 1
  /\ session_memory["u1"][1] # session_memory["u1"][2]

\* C18: when run() has returned through a handler that calls the model, the
\* user's history holds the turn made of the raw user message and the
\* response returned for the turn.
C18_TurnRecorded ==
  (pc = "done" /\ turn.intent \notin {"travel_suggestion", "rag_question"})
  => \E k \in 1..Len(session_memory[turn.user_id]) :
       session_memory[turn.user_id][k] =
         [user |-> ChatMessage("general"), assistant |-> response.response]


\* the ticket ids held by the lines of the file
FileIds(lines) == {json_loads(lines[k]).ticket_id : k \in 1..Len(lines)}

\* C19: the id a successful book_ticket returns is in no Tools object's
\* dict, not in the file and was not returned before; the tickets held by an
\* object keep their ids, and cancel_ticket changes nothing but the status.
C19_TicketIdsUniqueAndFixed ==
  [][/\ (call'.op = "api_book_ticket" /\ ret'.status = 200)
          => /\ \A i \in Instances : ret'.data.ticket_id \notin Keys(tickets[i])
             /\ ret'.data.ticket_id \notin FileIds(file)
             /\ ret'.data.ticket_id \notin BookedIds
     /\ call'.op # None
          => \A i \in Instances :
               /\ Len(tickets'[i]) >= Len(tickets[i])
               /\ \A k \in 1..Len(tickets[i]) :
                    tickets'[i][k].ticket_id = tickets[i][k].ticket_id
     /\ call'.op = "api_cancel_ticket"
          => \A i \in Instances :
               \A k \in 1..Len(tickets[i]) :
                 [tickets'[i][k] EXCEPT !.status = "cancelled"]
                   = [tickets[i][k] EXCEPT !.status = "cancelled"]]_vars

\* a second booking of the process has returned a second id
C19_Witness ==
  /\ call.op = "api_book_ticket"
  /\ ret.status = 200
  /\ ret.data.ticket_id = uuid4(2)
  /\ \E i \in Instances : Keys(tickets[i]) = {uuid4(1), uuid4(2)}


\* C20: the tool invocations made during one run(), by chat() and by the
\* handlers together, number at most max_tool_rounds.
C20_ToolRoundsCapped == Len(tool_log) <= max_tool_rounds

\* C21: a cancel or info turn whose model response is not JSON returns it
\* verbatim with no tool invoked; otherwise the handler's ticket tool is
\* invoked exactly once in the turn and its result is in the response.
C21_HandlerToolExactlyOnce ==
  (pc = "done" /\ turn.intent \in {"cancel_ticket", "get_ticket_info"})
  => IF ~StartsWithBrace(turn.resp)
     THEN response.response = turn.resp /\ tool_log = <<>>
     ELSE /\ Len(tool_log) = 1
          /\ tool_log[1].tool
               = (IF turn.intent = "cancel_ticket" THEN "api_cancel_ticket"
                  ELSE "api_get_ticket_info")
          /\ IF turn.intent = "cancel_ticket" THEN response.tool_result = ret
             ELSE response.response = Json(ret)

\* the turns of user u stored by a chat() whose message is the date prompt
\* followed by a date text
DateCalls(u) ==
  {k \in 1..Len(session_memory[u]) : session_memory[u][k].user.prefix = DatePrompt}

\* C22: when a tool was invoked with params that carry a date (every
\* api_book_ticket call here), a date-normalization chat was made before it.
C22_DateNormalizedBeforeTool ==
  (pc # "idle" /\ Invocations("api_book_ticket") # {})
  => DateCalls(turn.user_id) # {}

\* C23: when the intent chat answers general_question or unclear, run()
\* goes to no handler and no tool but to its last statement, the one chat()
\* over the raw user message.
C23_GeneralQuestionFallsThrough ==
  [][(/\ pc = "intent"
      /\ DetectIntent
      /\ ~NothingAppended(turn.user_id)
      /\ NewestAnswer(turn.user_id)
           \in {Text(<<"general_question">>), Text(<<"unclear">>)})
     => pc' = "general"]_vars

\* C24: a turn classified rag_question ends with a response that carries
\* the answer and, as sources, the documents rag_query returned, whatever
\* rag_query returned.
C24_RagAnswersWithSources ==
  (turn.intent = "rag_question" /\ call.op = "rag_query")
  => /\ pc = "done"
     /\ "sources" \in DOMAIN response
     /\ response.sources = ret.results

\* C25: a search that makes a live-provider attempt for a key does so at
\* least min_interval after the previous attempt for that key, whose time
\* is the ts of the key's cache entry, on whichever Tools object it was made.
C25_AttemptsSpaced ==
  [][(searches' = searches + 1 /\ ret'.source \in {"tavily", "mock"})
     => \A i \in Instances, query \in QueryInputs, location \in LocationInputs,
           max_results \in MaxResultsInputs, provider \in ProviderAnswers :
          (/\ _cache[_make_cache_key(query, location, max_results)] # NoEntry
           /\ Search(i, query, location, max_results, provider))
          => now' - _cache[_make_cache_key(query, location, max_results)].ts
               >= settings.min_interval]_vars

\* the lines of the file that hold ticket t
LinesOf(t) == {k \in 1..Len(file) : json_loads(file[k]).ticket_id = t}

\* C26: once no book_ticket and no cancel_ticket is under way, the file
\* holds every booked ticket exactly once, with the status it has in memory.
C26_NoLostUpdate ==
  pending = NoPending
  => \A t \in BookedIds :
       /\ Cardinality(LinesOf(t)) = 1
       /\ \A k \in LinesOf(t) :
            json_loads(file[k]).status = DictGet(tickets[Shared], t).status

\* the candidate intents of INTENT_CLASSIFICATION_PROMPT
CandidateIntents == valid_intents \cup {"general_question", "unclear"}

\* C27: the intent run() dispatches on is one of the seven candidates.
C27_IntentIsCandidate ==
  pc \notin {"idle", "lang", "intent"} => turn.intent \in CandidateIntents

\* C28: a ticket held by the ChatManager's Tools object is found when the
\* Orchestrator's Tools object is asked for it or asked to cancel it.
C28_BookedByChatVisibleToHandlers ==
  [][\A t \in Keys(tickets["chat_manager"]) :
       \A tool_name \in {"api_get_ticket_info", "api_cancel_ticket"} :
          (/\ call' = Call(tool_name, t)
           /\ RunTool("orchestrator", tool_name, [ticket_id |-> t]))
          => ret'.status = 200]_vars

\* C29: while the module's cache holds an entry for a key that is not older
\* than ttl (mock results stored after a provider failure included), a
\* search for that key on either Tools object returns the stored results
\* with source "cache" and leaves the entry as it is; so the provider is
\* tried again for the key only once the entry has expired.
C29_MockCachedUntilExpiry ==
  [][(call'.op = "web_search" /\ searches' = searches + 1)
       => \A i \in Instances, query \in QueryInputs, location \in LocationInputs,
             max_results \in MaxResultsInputs, provider \in ProviderAnswers :
            (/\ _cache[_make_cache_key(query, location, max_results)] # NoEntry
             /\ now - _cache[_make_cache_key(query, location, max_results)].ts
                  <= settings.ttl
             /\ Search(i, query, location, max_results, provider))
            => (/\ ret' = SearchResult("cache", query,
                            _cache[_make_cache_key(query, location, max_results)].value)
                /\ _cache' = _cache)]_vars

\* a search has been answered from the cache with the mock samples stored
\* by an earlier search, ttl seconds after they were stored
C29_Witness ==
  /\ call.op = "web_search"
  /\ ret.source = "cache"
  /\ ret.results = <<"shiraz", "hamadan">>
  /\ \E key \in CacheKeys :
        /\ _cache[key] # NoEntry
        /\ _cache[key].value = ret.results
        /\ now - _cache[key].ts = settings.ttl

\* C30: a chat() whose first completion fails, or whose follow-up completion
\* after a tool result fails, appends nothing: no step that changes a
\* history is such a call, so every user's history is what it was before.
C30_ProviderFailureAppendsNothing ==
  [][session_memory' # session_memory
       => \A user_id \in Users, step \in ChatSteps :
            \A first \in FirstOutputs(step), second \in FollowUps(step) :
               (first = ProviderError
                  \/ (_detect_tool_call(first) /\ second = ProviderError))
               => \A r \in {chat(tickets["chat_manager"], file, first, second,
                                 uuid4(issued + 1))} :
                     ~(/\ tool_log' = r.log
                       /\ ApplyChatTo(user_id, r, step)
                       /\ UNCHANGED <<pc, turn, response, turns>>)]_vars

\* a chat() has run the cancel tool, got its result (not found) and then
\* failed, and no history holds a turn
C30_Witness ==
  /\ Len(tool_log) = 1
  /\ tool_log[1].by = "chat_manager"
  /\ tool_log[1].tool = "api_cancel_ticket"
  /\ tool_log[1].status = 404
  /\ \A u \in Users : session_memory[u] = <<>>

====
